---- MODULE Spec2Model ----
(***************************************************************************)
(* A model of app.py: the seed-offset cipher decoder, the single active    *)
(* question life cycle, the answer ledger and the scoring actions of the   *)
(* offline quiz host.  Tables are modelled as the committed content of the *)
(* database; every request handler is one action of the sequential         *)
(* specification Spec, and a step-by-step process in the concurrent ones.  *)
(***************************************************************************)
EXTENDS Integers, Sequences, FiniteSets, TLC

VARIABLES
    seeds,      \* Seed table: function sid -> r over the sids that have a row
    students,   \* Student table: function sid -> score over the sids that have a row
    questions,  \* Question table: sequence of rows, row i has id i
    answers,    \* Answer table: set of rows
    procs,      \* concurrent request workers: their position and session
    probe       \* input and result of a pure function under test

vars == <<seeds, students, questions, answers, procs, probe>>

tables == <<seeds, students, questions, answers>>

----------------------------------------------------------------------------
(* Program constants. *)

MAX_SID == 64

MIN_SID == 1

\* random.randint(0, 89) in ensure_seeds
MAX_R == 89

\* options[:10] in load_presets, remaining = 10 - len(new_options) in edit
MAX_OPTIONS == 10

Roster == MIN_SID..MAX_SID

----------------------------------------------------------------------------
(* Bounds of the model. *)

\* questions that may be published
MaxQuestions == 2

\* largest absolute value a score or an answer's score_change may reach
MaxScore == 1

\* requests in flight at once in the concurrent specifications
MaxWorkers == 2

----------------------------------------------------------------------------
(* Python values. *)

\* None, and a present value, of a nullable column or an optional result
None == <<>>

Some(x) == <<x>>

Max(a, b) == IF a >= b THEN a ELSE b

Min(a, b) == IF a <= b THEN a ELSE b

\* Texts are sequences of characters.
Whitespace == {" ", "\n"}

DigitChars == {"0", "1", "2", "3", "4", "5", "6", "7", "8", "9"}

RECURSIVE lstrip(_)
lstrip(s) ==
    IF s # <<>> /\ Head(s) \in Whitespace THEN lstrip(Tail(s)) ELSE s

RECURSIVE rstrip(_)
rstrip(s) ==
    IF s # <<>> /\ s[Len(s)] \in Whitespace
    THEN rstrip(SubSeq(s, 1, Len(s) - 1))
    ELSE s

\* str.strip()
strip(s) == rstrip(lstrip(s))

\* str.isdigit(): non-empty and every character a digit
isdigit(s) == s # <<>> /\ \A k \in 1..Len(s) : s[k] \in DigitChars

DigitValue(c) ==
    CASE c = "0" -> 0 [] c = "1" -> 1 [] c = "2" -> 2 [] c = "3" -> 3
      [] c = "4" -> 4 [] c = "5" -> 5 [] c = "6" -> 6 [] c = "7" -> 7
      [] c = "8" -> 8 [] c = "9" -> 9

\* int(s) of a string of digits
RECURSIVE int(_)
int(s) ==
    IF s = <<>> THEN 0
    ELSE 10 * int(SubSeq(s, 1, Len(s) - 1)) + DigitValue(s[Len(s)])

\* str.splitlines(): the lines between line breaks, no empty last line
RECURSIVE splitlines(_)
splitlines(s) ==
    IF s = <<>> THEN <<>>
    ELSE LET brk == {k \in 1..Len(s) : s[k] = "\n"}
         IN  IF brk = {} THEN <<s>>
             ELSE LET k == CHOOSE b \in brk : \A c \in brk : b <= c
                  IN  <<SubSeq(s, 1, k - 1)>> \o splitlines(SubSeq(s, k + 1, Len(s)))

\* [f(x) for x in xs if p(x)] for f = strip, p = non-blank
RECURSIVE stripped_nonblank(_)
stripped_nonblank(lines) ==
    IF lines = <<>> THEN <<>>
    ELSE (IF strip(Head(lines)) # <<>> THEN <<strip(Head(lines))>> ELSE <<>>)
         \o stripped_nonblank(Tail(lines))

----------------------------------------------------------------------------
(* CodeDecoder. *)

DecodeError(kind) == [err |-> kind, sid |-> 0, option_index |-> 0]

DecodeOk(sid, option_index) == [err |-> "", sid |-> sid, option_index |-> option_index]

\* Seed.query.get(sid) on the table seedtab
seed_get(seedtab, sid) ==
    IF sid \in DOMAIN seedtab THEN Some(seedtab[sid]) ELSE None

\* decode_code with the suffix check off by one (b > 98 refused)
decode_code_suffix98(code_int, n, seedtab) ==
    LET sid == code_int \div 100
        b == code_int % 100
    IN  IF sid < MIN_SID \/ sid > MAX_SID THEN DecodeError("SidOutOfRange")
        ELSE IF b < 1 \/ b > 98 THEN DecodeError("SuffixOutOfRange")
        ELSE IF seed_get(seedtab, sid) = None THEN DecodeError("UnknownSeed")
        ELSE LET option_index == b - seedtab[sid]
             IN  IF option_index < 1 \/ option_index > n
                 THEN DecodeError("OptionIndexOutOfRange")
                 ELSE DecodeOk(sid, option_index)

decode_code(code_int, n, seedtab) ==
    LET sid == code_int \div 100
        b == code_int % 100
    IN  IF sid < MIN_SID \/ sid > MAX_SID THEN DecodeError("SidOutOfRange")
        ELSE IF b < 1 \/ b > 99 THEN DecodeError("SuffixOutOfRange")
        ELSE IF seed_get(seedtab, sid) = None THEN DecodeError("UnknownSeed")
        ELSE LET option_index == b - seedtab[sid]
             IN  IF option_index < 1 \/ option_index > n
                 THEN DecodeError("OptionIndexOutOfRange")
                 ELSE DecodeOk(sid, option_index)

----------------------------------------------------------------------------
(* SeedStore. *)

\* The draws of random.randint(0, 89), one per sid of the roster: the model
\* follows the tables of draws (5 * sid + k) % 90 for the shifts k below
\* (with shift 0, sid 1 draws 5 and sid 2 draws 10).
SeedShifts == {0}

SeedDraws == {[sid \in Roster |-> (5 * sid + k) % (MAX_R + 1)] : k \in SeedShifts}

\* ensure_seeds on the table seedtab, with draw[sid] the random draw for sid
ensure_seeds(seedtab, draw) ==
    LET existing == DOMAIN seedtab
    IN  [sid \in existing \cup Roster |->
            IF sid \in existing THEN seedtab[sid] ELSE draw[sid]]

EmptyTable == [sid \in {} |-> 0]

----------------------------------------------------------------------------
(* Student table. *)

\* func.min(Student.score) over the table, None when it is empty
min_score(studtab) ==
    IF DOMAIN studtab = {} THEN None
    ELSE Some(CHOOSE m \in {studtab[s] : s \in DOMAIN studtab} :
                 \A s \in DOMAIN studtab : m <= studtab[s])

\* ensure_student_exists that adds no row
ensure_student_exists_skipped(studtab, sid) == studtab

\* ensure_student_exists that starts every new Student at 0
ensure_student_exists_zero(studtab, sid) ==
    IF sid \in DOMAIN studtab THEN studtab
    ELSE [s \in DOMAIN studtab \cup {sid} |-> IF s = sid THEN 0 ELSE studtab[s]]

\* ensure_student_exists(sid): the Student table after the call
ensure_student_exists(studtab, sid) ==
    IF sid \in DOMAIN studtab THEN studtab
    ELSE LET m == min_score(studtab)
             score == IF m = None THEN 0 ELSE m[1]
         IN  [s \in DOMAIN studtab \cup {sid} |->
                 IF s = sid THEN score ELSE studtab[s]]

----------------------------------------------------------------------------
(* Question table. *)

Letters == <<"a", "b", "c", "d", "e", "f", "g", "h", "i", "j">>

\* The catalog load_presets returns: the preset ids and their option lists
\* (each option a one-letter text, 1..10 options per preset).
PresetOptions(n) == [i \in 1..n |-> <<Letters[i]>>]

Presets ==
    << [id |-> "p8", options |-> PresetOptions(8)],
       [id |-> "p9", options |-> PresetOptions(9)] >>

\* next((p for p in presets_list if p["id"] == preset_id), None)
find_preset(preset_id) ==
    LET hits == {k \in 1..Len(Presets) : Presets[k].id = preset_id}
    IN  IF hits = {} THEN None
        ELSE Some(Presets[CHOOSE k \in hits : \A h \in hits : k <= h])

QuestionIds(qs) == 1..Len(qs)

\* Question.query.filter_by(is_active=True).order_by(created_at.desc()).first():
\* the rows the query may return (one of the newest active rows), {} for None
get_active_question(qs) ==
    {i \in QuestionIds(qs) :
        /\ qs[i].is_active
        /\ \A j \in QuestionIds(qs) :
              qs[j].is_active => qs[j].created_at <= qs[i].created_at}

\* Question.query.get(qid)
question_get(qs, qid) == IF qid \in QuestionIds(qs) THEN Some(qs[qid]) ELSE None

----------------------------------------------------------------------------
(* Answer table. *)

NewAnswer(sid, qid, option_index, code) ==
    [sid |-> sid, question_id |-> qid, option_index |-> option_index,
     code |-> code, score_change |-> 0]

\* Answer.query.filter_by(question_id=qid, sid=sid)
answers_of(anstab, qid, sid) ==
    {a \in anstab : a.question_id = qid /\ a.sid = sid}

\* UniqueConstraint("sid", "question_id"): whether inserting row a is refused
violates_unique(anstab, a) == answers_of(anstab, a.question_id, a.sid) # {}

\* func.max(Answer.option_index) of a question, 0 for None (int(max_used or 0))
max_used(anstab, qid) ==
    LET used == {a.option_index : a \in {x \in anstab : x.question_id = qid}}
    IN  IF used = {} THEN 0 ELSE CHOOSE m \in used : \A u \in used : u <= m

----------------------------------------------------------------------------
(* Responses. *)

\* The response of a handler: the HTTP status and which branch produced it;
\* qid and sid name the rows a successful request acted on (0 otherwise).
Response(op, status, outcome, qid, sid) ==
    [op |-> op, status |-> status, outcome |-> outcome, qid |-> qid, sid |-> sid]

NoRequest == Response("none", 0, "", 0, 0)

----------------------------------------------------------------------------
(* Request inputs. *)

\* The "code" field of a submit request, before strip(): a cipher of sid 1
\* (106 = option 1 under offset 5) and one of sid 2 (220 = option 10 under
\* offset 10), a sid above the roster (6501), sid 0 (5), suffix 00 (100),
\* and a text that is no number.
CodeInputs ==
    { <<"1", "0", "6">>, <<"1", "0", "7">>, <<" ", "2", "2", "0", "\n">>,
      <<"6", "5", "0", "1">>, <<"5">>, <<"1", "0", "0">>, <<"x">> }

\* The "sid" field of a delete request
SidInputs == { <<"1">>, <<" ", "2">>, <<"x">> }

\* The "preset_id" field of a publish request
PresetIdInputs == {"p9", "nope"}

\* The opt1, opt2, ... and append_options fields of an edit request: field
\* opt<i> is opts[i], and is missing from the form beyond the length of opts.
EditInputs ==
    { [opts |-> <<>>, append_raw |-> <<>>],
      [opts |-> << <<" ", "x", " ">> >>, append_raw |-> <<>>],
      [opts |-> << <<>>, <<" ">> >>, append_raw |-> <<" ", "\n", " ">>],
      [opts |-> <<>>, append_raw |-> <<"\n", " ", "y", " ">>],
      [opts |-> << <<" ", "x", " ">> >>, append_raw |-> <<"y", "\n", "y", "\n">>] }

\* request.form.get(f"opt{i}", "")
form_opt(opts, i) == IF i \in 1..Len(opts) THEN opts[i] ELSE <<>>

----------------------------------------------------------------------------
(* The handlers.  A handler is a function of the tables and of the fields  *)
(* of the request: it gives the tables it commits and its response.        *)

\* now(): the requests of the model are served at one reading of the clock,
\* so a timestamp column tells only whether it is set.
now == 0

\* The tables as the request found them
Same ==
    [seeds |-> seeds, students |-> students, questions |-> questions,
     answers |-> answers]

\* The rows get_active_question() may return, 0 standing for None
ActiveChoice ==
    IF get_active_question(questions) = {} THEN {0} ELSE get_active_question(questions)

\* The end of a request with result r.  Every request first runs
\* _startup_once, which leaves a complete Seed table as it is.
Commit(r) ==
    /\ \E draw \in SeedDraws : seeds' = ensure_seeds(seeds, draw)
    /\ students' = r.students
    /\ questions' = r.questions
    /\ answers' = r.answers
    /\ UNCHANGED <<procs, probe>>

\* The row start_preset inserts
NewQuestion(id, preset) ==
    [id |-> id, preset_id |-> preset.id, options |-> preset.options,
     is_active |-> TRUE, created_at |-> now, settled_at |-> None]

\* deactivate_all that also stamps settled_at on the rows it clears
deactivate_and_settle(qs) ==
    [i \in QuestionIds(qs) |->
        [qs[i] EXCEPT !.is_active = FALSE,
                      !.settled_at = IF qs[i].is_active THEN Some(now) ELSE @]]

\* deactivate_all left out
deactivate_none(qs) == qs

\* Question.query.filter_by(is_active=True).update({"is_active": False})
deactivate_all(qs) == [i \in QuestionIds(qs) |-> [qs[i] EXCEPT !.is_active = FALSE]]

\* POST /presets/start
start_preset_result(preset_id) ==
    LET preset == find_preset(preset_id)
        id == Len(questions) + 1
    IN  IF preset = None
        THEN Same @@ [resp |-> Response("start_preset", 302, "PresetNotFound", 0, 0)]
        ELSE [Same EXCEPT !.questions =
                 Append(deactivate_all(questions), NewQuestion(id, preset[1]))]
             @@ [resp |-> Response("start_preset", 302, "Published", id, 0)]

start_preset(preset_id) ==
    /\ Len(questions) < MaxQuestions
    /\ Commit(start_preset_result(preset_id))

\* settle_result that also clears the active flag of the settled question
settle_result_deactivating(qid) ==
    IF qid = 0
    THEN Same @@ [resp |-> Response("settle", 302, "NoActiveQuestion", 0, 0)]
    ELSE [Same EXCEPT !.questions = [questions EXCEPT ![qid].settled_at = Some(now),
                                                      ![qid].is_active = FALSE]]
         @@ [resp |-> Response("settle", 302, "Settled", qid, 0)]

\* POST /operator/settle, for the active question qid (0 for None)
settle_result(qid) ==
    IF qid = 0
    THEN Same @@ [resp |-> Response("settle", 302, "NoActiveQuestion", 0, 0)]
    ELSE [Same EXCEPT !.questions = [questions EXCEPT ![qid].settled_at = Some(now)]]
         @@ [resp |-> Response("settle", 302, "Settled", qid, 0)]

settle_question == \E qid \in ActiveChoice : Commit(settle_result(qid))

\* The commit of a new Answer row: refused by the unique constraint when a
\* row of the same (sid, question_id) is stored (IntegrityError, which
\* submit_code does not catch: the request ends with status 500).
insert_answer(anstab, a) ==
    IF violates_unique(anstab, a) THEN anstab ELSE anstab \cup {a}

\* the settled check left out
is_settled_never(q) == FALSE

\* q.settled_at is not None
is_settled(q) == q.settled_at # None

\* the existence check left out
already_submitted_never(anstab, qid, sid) == FALSE

\* The existence check of submit_code before its insert
already_submitted(anstab, qid, sid) == answers_of(anstab, qid, sid) # {}

\* POST /operator/submit_code on the tables db, for the active question qid
\* (0 for None)
submit_on(db, qid, code_field) ==
    LET code_raw == strip(code_field)
        code_int == int(code_raw)
        q == db.questions[qid]
        dec == decode_code(code_int, Len(q.options), db.seeds)
        same == [seeds |-> db.seeds, students |-> db.students,
                 questions |-> db.questions, answers |-> db.answers]
        created == [same EXCEPT !.students = ensure_student_exists(db.students, dec.sid)]
        a == NewAnswer(dec.sid, qid, dec.option_index, code_int)
    IN  IF qid = 0
        THEN same @@ [resp |-> Response("submit", 400, "NoActiveQuestion", 0, 0)]
        ELSE IF is_settled(q)
        THEN same @@ [resp |-> Response("submit", 409, "QuestionAlreadySettled", 0, 0)]
        ELSE IF ~isdigit(code_raw)
        THEN same @@ [resp |-> Response("submit", 400, "MalformedCipher", 0, 0)]
        ELSE IF dec.err # ""
        THEN same @@ [resp |-> Response("submit", 400, dec.err, 0, 0)]
        ELSE IF already_submitted(db.answers, qid, dec.sid)
        THEN created @@ [resp |-> Response("submit", 409, "DuplicateSubmission", 0, 0)]
        ELSE IF violates_unique(db.answers, a)
        THEN created @@ [resp |-> Response("submit", 500, "IntegrityError:answer", 0, 0)]
        ELSE [created EXCEPT !.answers = insert_answer(db.answers, a)]
             @@ [resp |-> Response("submit", 200, "Ok", qid, dec.sid)]

\* The same on the tables of the state
submit_result(qid, code_field) == submit_on(Same, qid, code_field)

submit_code(code_field) ==
    \E qid \in ActiveChoice : Commit(submit_result(qid, code_field))

\* delete_rows that deletes every row of the question
delete_rows_of_question(anstab, qid, sid) == {a \in anstab : a.question_id # qid}

\* delete_rows without the delete reaching the table
delete_rows_none(anstab, qid, sid) == anstab

\* db.session.delete(a) for a the first row of (qid, sid), and the commit
delete_rows(anstab, qid, sid) ==
    anstab \ {CHOOSE a \in answers_of(anstab, qid, sid) : TRUE}

\* The body shared by the two delete handlers, once the question is found
delete_result(op, qid, sid_field) ==
    LET sid_raw == strip(sid_field)
        sid == int(sid_raw)
    IN  IF ~isdigit(sid_raw)
        THEN Same @@ [resp |-> Response(op, 302, "MalformedSid", 0, 0)]
        ELSE IF answers_of(answers, qid, sid) = {}
        THEN Same @@ [resp |-> Response(op, 302, "NotFound", 0, 0)]
        ELSE [Same EXCEPT !.answers = delete_rows(answers, qid, sid)]
             @@ [resp |-> Response(op, 302, "Deleted", qid, sid)]

\* POST /operator/delete_submission, for the active question qid (0 for None)
delete_submission_result(qid, sid_field) ==
    IF qid = 0
    THEN Same @@ [resp |-> Response("delete", 302, "NoActiveQuestion", 0, 0)]
    ELSE delete_result("delete", qid, sid_field)

delete_submission(sid_field) ==
    \E qid \in ActiveChoice : Commit(delete_submission_result(qid, sid_field))

\* POST /question/<qid>/delete_submission
delete_submission_for_question_result(qid, sid_field) ==
    IF question_get(questions, qid) = None
    THEN Same @@ [resp |-> Response("delete_for", 404, "QuestionNotFound", 0, 0)]
    ELSE delete_result("delete_for", qid, sid_field)

delete_submission_for_question(qid, sid_field) ==
    Commit(delete_submission_for_question_result(qid, sid_field))

\* new_options of edit_options_for_question before the append: position i
\* takes the stripped field opt<i> when that is not empty, else its old text
replaced_options(old_options, opts) ==
    [i \in 1..Len(old_options) |->
        LET t == strip(form_opt(opts, i))
        IN  IF t # <<>> THEN t ELSE old_options[i]]

\* appended_options without the cut to 10 options
appended_options_nocap(new_options, append_raw) ==
    new_options \o stripped_nonblank(splitlines(append_raw))

\* new_options after the append of the non-blank lines, cut to 10 options
appended_options(new_options, append_raw) ==
    LET append_lines == stripped_nonblank(splitlines(append_raw))
        remaining == MAX_OPTIONS - Len(new_options)
    IN  IF append_lines # <<>> /\ remaining > 0
        THEN new_options \o SubSeq(append_lines, 1, Min(remaining, Len(append_lines)))
        ELSE new_options

\* edit_options_for_question that builds the list from the supplied fields
\* alone and stores it without the two length checks
edit_result_supplied_only(qid, opts, append_raw) ==
    LET new_options == appended_options(stripped_nonblank(opts), append_raw)
    IN  IF question_get(questions, qid) = None
        THEN Same @@ [resp |-> Response("edit", 404, "QuestionNotFound", 0, 0)]
        ELSE [Same EXCEPT !.questions = [questions EXCEPT ![qid].options = new_options]]
             @@ [resp |-> Response("edit", 302, "Edited", qid, 0)]

\* POST /question/<qid>/edit_options
edit_result(qid, opts, append_raw) ==
    LET q == questions[qid]
        old_options == q.options
        old_n == Len(old_options)
        new_options == appended_options(replaced_options(old_options, opts), append_raw)
    IN  IF question_get(questions, qid) = None
        THEN Same @@ [resp |-> Response("edit", 404, "QuestionNotFound", 0, 0)]
        ELSE IF old_n < 1
        THEN Same @@ [resp |-> Response("edit", 302, "OptionsBroken", 0, 0)]
        ELSE IF Len(new_options) < old_n
        THEN Same @@ [resp |-> Response("edit", 302, "OptionShrinkRejected", 0, 0)]
        ELSE IF max_used(answers, qid) > Len(new_options)
        THEN Same @@ [resp |-> Response("edit", 302, "OptionShrinkRejected", 0, 0)]
        ELSE [Same EXCEPT !.questions = [questions EXCEPT ![qid].options = new_options]]
             @@ [resp |-> Response("edit", 302, "Edited", qid, 0)]

edit_options_for_question(qid, opts, append_raw) ==
    Commit(edit_result(qid, opts, append_raw))

----------------------------------------------------------------------------
(* ScoringEngine. *)

\* The "question_id" field of a scoring request
QidInputs == { <<"1">>, <<" ", "2">>, <<"7">> }

\* Parsed "change" fields (parse_float gives 0.0 for a missing or malformed
\* field); scores are modelled in whole points.
ChangeInputs == {1}

\* Parsed "sid" fields of per-student scoring (0 when the field is missing)
ScoreSidInputs == {2, 65}

\* Parsed "prob_percent", "change1", "change2" fields of probabilistic scoring
ProbInputs ==
    { [prob_percent |-> -50, change1 |-> 1, change2 |-> 0],
      [prob_percent |-> 50, change1 |-> 1, change2 |-> 0],
      [prob_percent |-> 150, change1 |-> 1, change2 |-> 0] }

\* Values of random.random(), in hundredths: 0.00 <= u < 1.00
RandomDraws == {0, 50, 99}

\* max(0.0, min(1.0, prob_percent / 100.0)), in hundredths
clamp_prob(prob_percent) == Max(0, Min(100, prob_percent))

\* apply_change that leaves the row's score_change as it was
apply_change_score_only(st, a, change) ==
    LET studs == ensure_student_exists(st.students, a.sid)
    IN  [st EXCEPT !.students = [studs EXCEPT ![a.sid] = @ + change]]

\* s.score += change; a.score_change += change for one answer row
apply_change(st, a, change) ==
    LET studs == ensure_student_exists(st.students, a.sid)
    IN  [st EXCEPT !.students = [studs EXCEPT ![a.sid] = @ + change],
                   !.answers = (st.answers \ {a})
                               \cup {[a EXCEPT !.score_change = @ + change]}]

\* for a in answers: ..., the rows taken in the order of their sid;
\* change_of[a.sid] is the change the loop body applies to row a
RECURSIVE score_rows(_, _, _)
score_rows(st, rows, change_of) ==
    IF rows = {} THEN st
    ELSE LET a == CHOOSE x \in rows : \A y \in rows : x.sid <= y.sid
         IN  score_rows(apply_change(st, a, change_of[a.sid]), rows \ {a}, change_of)

\* Answer.query.filter_by(question_id=qid, option_index=option_index).all()
answers_with_option(anstab, qid, option_index) ==
    {a \in anstab : a.question_id = qid /\ a.option_index = option_index}

\* The sids of those rows
Chose_rows(anstab, qid, option_index) ==
    {a.sid : a \in answers_with_option(anstab, qid, option_index)}

\* The resolution of the question, shared by every action type:
\* the response that ends the request early, or None
score_question(qid_field) ==
    LET qid_raw == strip(qid_field)
    IN  IF ~isdigit(qid_raw)
        THEN Some(Response("score", 302, "MissingQuestionId", 0, 0))
        ELSE IF question_get(questions, int(qid_raw)) = None
        THEN Some(Response("score", 302, "QuestionNotFound", 0, 0))
        ELSE None

\* The four tables of db
tables_of(db) ==
    [seeds |-> db.seeds, students |-> db.students, questions |-> db.questions,
     answers |-> db.answers]

\* action_type == "A" on the tables db, for the question qid found in them
score_A_on(db, qid, option_index, change) ==
    LET n == Len(db.questions[qid].options)
        rows == answers_with_option(db.answers, qid, option_index)
    IN  IF option_index < 1 \/ option_index > n
        THEN tables_of(db) @@ [resp |-> Response("score_A", 302, "InvalidOption", 0, 0)]
        ELSE score_rows(tables_of(db), rows, [s \in {a.sid : a \in rows} |-> change])
             @@ [resp |-> Response("score_A", 302, "Scored", qid, 0)]

score_A_result(qid, option_index, change) == score_A_on(Same, qid, option_index, change)

\* action "B" that scores only a student who has an Answer on the question
score_B_answered_only(db, qid, sid, change) ==
    LET rows == answers_of(db.answers, qid, sid)
    IN  IF sid < MIN_SID \/ sid > MAX_SID
        THEN tables_of(db) @@ [resp |-> Response("score_B", 302, "InvalidSid", 0, 0)]
        ELSE score_rows(tables_of(db), rows, [s \in {sid} |-> change])
             @@ [resp |-> Response("score_B", 302, "Scored", qid, sid)]

\* action "B" that fetches the Student row before it tests the sid
score_B_student_first(db, qid, sid, change) ==
    LET studs == ensure_student_exists(db.students, sid)
        rows == answers_of(db.answers, qid, sid)
    IN  IF sid < MIN_SID \/ sid > MAX_SID
        THEN [tables_of(db) EXCEPT !.students = studs]
             @@ [resp |-> Response("score_B", 302, "InvalidSid", 0, 0)]
        ELSE score_rows([tables_of(db) EXCEPT
                            !.students = IF rows = {}
                                         THEN [studs EXCEPT ![sid] = @ + change]
                                         ELSE studs],
                        rows, [s \in {sid} |-> change])
             @@ [resp |-> Response("score_B", 302, "Scored", qid, sid)]

\* action_type == "B" on the tables db
score_B_on(db, qid, sid, change) ==
    LET studs == ensure_student_exists(db.students, sid)
        rows == answers_of(db.answers, qid, sid)
        a == CHOOSE x \in rows : TRUE
    IN  IF sid < MIN_SID \/ sid > MAX_SID
        THEN tables_of(db) @@ [resp |-> Response("score_B", 302, "InvalidSid", 0, 0)]
        ELSE [tables_of(db) EXCEPT
                 !.students = [studs EXCEPT ![sid] = @ + change],
                 !.answers = IF rows = {} THEN db.answers
                             ELSE (db.answers \ {a})
                                  \cup {[a EXCEPT !.score_change = @ + change]}]
             @@ [resp |-> Response("score_B", 302, "Scored", qid, sid)]

score_B_result(qid, sid, change) == score_B_on(Same, qid, sid, change)

\* the test of the draw with <= in place of <
draw_succeeds_inclusive(u, prob) == u <= prob

\* random.random() < prob, both in hundredths
draw_succeeds(u, prob) == u < prob

\* action_type == "C"; draw[sid] is the value of random.random() for the row of sid
score_C_result(qid, option_index, prob_percent, change1, change2, draw) ==
    LET n == Len(questions[qid].options)
        prob == clamp_prob(prob_percent)
        rows == answers_with_option(answers, qid, option_index)
    IN  IF option_index < 1 \/ option_index > n
        THEN Same @@ [resp |-> Response("score_C", 302, "InvalidOption", 0, 0)]
        ELSE score_rows(Same, rows,
                        [s \in {a.sid : a \in rows} |->
                            IF draw_succeeds(draw[s], prob) THEN change1 ELSE change2])
             @@ [resp |-> Response("score_C", 302, "Scored", qid, 0)]

\* The model follows scores and score changes up to MaxScore in size.
within_score_bound(r) ==
    /\ \A s \in DOMAIN r.students : r.students[s] \in -MaxScore..MaxScore
    /\ \A a \in r.answers : a.score_change \in -MaxScore..MaxScore

\* The end of a scoring request with result r
score_commit(r) == within_score_bound(r) /\ Commit(r)

\* The request up to its action type: the early response of score_question,
\* or the result of the action on the question found
score_request(qid_field, result) ==
    LET early == score_question(qid_field)
    IN  IF early # None THEN Same @@ [resp |-> early[1]] ELSE result

\* The question id the request resolves to
score_qid(qid_field) == int(strip(qid_field))

\* POST /operator/score with action_type "A": its result, and its step
score_A_request(qid_field, option_index, change) ==
    score_request(qid_field, score_A_result(score_qid(qid_field), option_index, change))

score_actions_A(qid_field, option_index, change) ==
    score_commit(score_A_request(qid_field, option_index, change))

\* POST /operator/score with action_type "B"
score_B_request(qid_field, sid, change) ==
    score_request(qid_field, score_B_result(score_qid(qid_field), sid, change))

score_actions_B(qid_field, sid, change) ==
    score_commit(score_B_request(qid_field, sid, change))

\* The sids that get a random draw: those of the rows the request scores
drawn_sids(qid_field, option_index) ==
    IF score_question(qid_field) # None THEN {}
    ELSE Chose_rows(answers, score_qid(qid_field), option_index)

\* POST /operator/score with action_type "C"
score_C_request(qid_field, option_index, prob_percent, change1, change2, draw) ==
    score_request(qid_field,
                  score_C_result(score_qid(qid_field), option_index, prob_percent,
                                 change1, change2, draw))

score_actions_C(qid_field, option_index, prob_percent, change1, change2) ==
    \E draw \in [drawn_sids(qid_field, option_index) -> RandomDraws] :
        score_commit(score_C_request(qid_field, option_index, prob_percent,
                                     change1, change2, draw))

\* POST /operator/score with any other action_type
score_unknown_request(qid_field) ==
    score_request(qid_field,
                  Same @@ [resp |-> Response("score", 302, "UnknownAction", 0, 0)])

score_actions_unknown(qid_field) == score_commit(score_unknown_request(qid_field))

----------------------------------------------------------------------------
(* The sequential specification: requests are served one at a time. *)

Idle == [p \in {} |-> 0]

NoProbe == [fn |-> "none"]

\* The state after db.create_all() and the first ensure_seeds()
Init ==
    /\ \E draw \in SeedDraws : seeds = ensure_seeds(EmptyTable, draw)
    /\ students = EmptyTable
    /\ questions = <<>>
    /\ answers = {}
    /\ procs = Idle
    /\ probe = NoProbe

Publish == \E preset_id \in PresetIdInputs : start_preset(preset_id)

Settle == settle_question

Submit == \E code_field \in CodeInputs : submit_code(code_field)

Delete == \E sid_field \in SidInputs : delete_submission(sid_field)

DeleteFor ==
    \E qid \in 1..(MaxQuestions + 1), sid_field \in SidInputs :
        delete_submission_for_question(qid, sid_field)

EditOptions ==
    \E qid \in 1..(MaxQuestions + 1), f \in EditInputs :
        edit_options_for_question(qid, f.opts, f.append_raw)

ScoreA ==
    \E qid_field \in QidInputs, option_index \in {1, 11}, change \in ChangeInputs :
        score_actions_A(qid_field, option_index, change)

ScoreB ==
    \E qid_field \in QidInputs, sid \in ScoreSidInputs, change \in ChangeInputs :
        score_actions_B(qid_field, sid, change)

ScoreC ==
    \E qid_field \in QidInputs, option_index \in {10}, f \in ProbInputs :
        score_actions_C(qid_field, option_index, f.prob_percent, f.change1, f.change2)

ScoreUnknown == \E qid_field \in QidInputs \cup {<<>>} : score_actions_unknown(qid_field)

Next ==
    \/ Publish
    \/ Settle
    \/ Submit
    \/ Delete
    \/ DeleteFor
    \/ EditOptions
    \/ ScoreA
    \/ ScoreB
    \/ ScoreC
    \/ ScoreUnknown

Spec == Init /\ [][Next]_vars

----------------------------------------------------------------------------
(* Concurrent submissions.  Each worker serves one submit_code request at   *)
(* a time in its own database session; a step is one access to the         *)
(* database.  A query reads the committed tables, a commit writes the      *)
(* session's new row unless a constraint of the table refuses it.          *)

Workers == 1..MaxWorkers

\* The "code" field of the racing requests: options 1 and 2 of sid 1
\* (106, 107 under offset 5) and option 2 of sid 2 (212 under offset 10)
RaceCodeInputs == { <<"1", "0", "6">>, <<"1", "0", "7">>, <<"2", "1", "2">> }

IdleWorker ==
    [pc |-> "idle", qid |-> 0, sid |-> 0, option_index |-> 0, code |-> 0,
     score |-> 0, created |-> FALSE, resp |-> NoRequest]

\* The end of a request that reached its decoded (sid, question)
Finish(w, resp) == procs' = [procs EXCEPT ![w].pc = "done", ![w].resp = resp]

\* The end of a request refused before that
Refuse(w, resp) ==
    procs' = [procs EXCEPT ![w] = [IdleWorker EXCEPT !.pc = "done", !.resp = resp]]

\* submit_code up to decode_code: the active question, the checks on it and
\* on the code field, and the decoding
submit_begin(w, code_field) ==
    LET active == get_active_question(questions)
        code_raw == strip(code_field)
        code_int == int(code_raw)
    IN  /\ procs[w].pc \in {"idle", "done"}
        /\ \E qid \in (IF active = {} THEN {0} ELSE active) :
            LET dec == decode_code(code_int, Len(questions[qid].options), seeds)
            IN  IF qid = 0
                THEN Refuse(w, Response("submit", 400, "NoActiveQuestion", 0, 0))
                ELSE IF is_settled(questions[qid])
                THEN Refuse(w, Response("submit", 409, "QuestionAlreadySettled", 0, 0))
                ELSE IF ~isdigit(code_raw)
                THEN Refuse(w, Response("submit", 400, "MalformedCipher", 0, 0))
                ELSE IF dec.err # ""
                THEN Refuse(w, Response("submit", 400, dec.err, 0, 0))
                ELSE procs' = [procs EXCEPT ![w] =
                        [pc |-> "student", qid |-> qid, sid |-> dec.sid,
                         option_index |-> dec.option_index, code |-> code_int,
                         score |-> 0, created |-> FALSE, resp |-> NoRequest]]
        /\ UNCHANGED <<seeds, students, questions, answers, probe>>

\* ensure_student_exists: Student.query.get(sid) and, with no row, the
\* minimum score read for the new row
submit_student(w) ==
    LET m == min_score(students)
    IN  /\ procs[w].pc = "student"
        /\ IF procs[w].sid \in DOMAIN students
           THEN procs' = [procs EXCEPT ![w].pc = "check"]
           ELSE procs' = [procs EXCEPT ![w].pc = "student_commit",
                                       ![w].score = IF m = None THEN 0 ELSE m[1]]
        /\ UNCHANGED <<seeds, students, questions, answers, probe>>

\* ensure_student_exists: db.session.add(student); db.session.commit().  The
\* primary key refuses a second row of the sid (IntegrityError, not caught).
submit_student_commit(w) ==
    /\ procs[w].pc = "student_commit"
    /\ IF procs[w].sid \in DOMAIN students
       THEN /\ Finish(w, Response("submit", 500, "IntegrityError:student", 0, 0))
            /\ UNCHANGED students
       ELSE /\ students' = [s \in DOMAIN students \cup {procs[w].sid} |->
                               IF s = procs[w].sid THEN procs[w].score ELSE students[s]]
            /\ procs' = [procs EXCEPT ![w].pc = "check", ![w].created = TRUE]
    /\ UNCHANGED <<seeds, questions, answers, probe>>

\* existing = Answer.query.filter_by(question_id=q.id, sid=sid).first()
submit_check(w) ==
    /\ procs[w].pc = "check"
    /\ IF already_submitted(answers, procs[w].qid, procs[w].sid)
       THEN Finish(w, Response("submit", 409, "DuplicateSubmission", 0, 0))
       ELSE procs' = [procs EXCEPT ![w].pc = "add"]
    /\ UNCHANGED <<seeds, students, questions, answers, probe>>

\* db.session.add(a): the row waits in the session
submit_add(w) ==
    /\ procs[w].pc = "add"
    /\ procs' = [procs EXCEPT ![w].pc = "commit"]
    /\ UNCHANGED <<seeds, students, questions, answers, probe>>

\* db.session.commit(): the unique constraint refuses a second row of the
\* (sid, question_id) (IntegrityError, not caught: status 500)
submit_commit(w) ==
    LET a == NewAnswer(procs[w].sid, procs[w].qid, procs[w].option_index, procs[w].code)
    IN  /\ procs[w].pc = "commit"
        /\ answers' = insert_answer(answers, a)
        /\ IF violates_unique(answers, a)
           THEN Finish(w, Response("submit", 500, "IntegrityError:answer", 0, 0))
           ELSE Finish(w, Response("submit", 200, "Ok", procs[w].qid, procs[w].sid))
        /\ UNCHANGED <<seeds, students, questions, probe>>

InitRace ==
    /\ \E draw \in SeedDraws : seeds = ensure_seeds(EmptyTable, draw)
    /\ students = EmptyTable
    /\ questions = <<>>
    /\ answers = {}
    /\ procs = [w \in Workers |-> IdleWorker]
    /\ probe = NoProbe

RaceBegin == \E w \in Workers, code_field \in RaceCodeInputs : submit_begin(w, code_field)

RaceStudent == \E w \in Workers : submit_student(w)

RaceStudentCommit == \E w \in Workers : submit_student_commit(w)

RaceCheck == \E w \in Workers : submit_check(w)

RaceAdd == \E w \in Workers : submit_add(w)

RaceCommit == \E w \in Workers : submit_commit(w)

NextRace ==
    \/ Publish
    \/ Settle
    \/ RaceBegin
    \/ RaceStudent
    \/ RaceStudentCommit
    \/ RaceCheck
    \/ RaceAdd
    \/ RaceCommit

SpecRace == InitRace /\ [][NextRace]_vars

----------------------------------------------------------------------------
(* Concurrent ensure_seeds.  Every request starts with _startup_once, so    *)
(* two requests that arrive together run ensure_seeds in two sessions.  A  *)
(* step is one access to the database: the query of the existing sids,     *)
(* the adds of the loop (pending in the session), the commit.              *)

\* The draws of random.randint the racing sessions may get, one per sid
RaceSeedDraws == {[sid \in Roster |-> (5 * sid + k) % (MAX_R + 1)] : k \in {0, 1, 2}}

IdleSeeder == [pc |-> "idle", existing |-> {}, pending |-> EmptyTable, outcome |-> "none"]

\* A commit that replaces the stored row of a sid by the pending one
commit_seeds_replace(seedtab, pending) ==
    [sid \in DOMAIN seedtab \cup DOMAIN pending |->
        IF sid \in DOMAIN pending THEN pending[sid] ELSE seedtab[sid]]

\* db.session.commit() of the pending Seed rows: the primary key on sid
\* refuses the whole transaction when a pending sid is already stored
commit_seeds(seedtab, pending) ==
    IF DOMAIN pending \cap DOMAIN seedtab # {}
    THEN seedtab
    ELSE [sid \in DOMAIN seedtab \cup DOMAIN pending |->
            IF sid \in DOMAIN pending THEN pending[sid] ELSE seedtab[sid]]

\* existing = {s.sid for s in Seed.query.all()}
seeds_read(w) ==
    /\ procs[w].pc \in {"idle", "done"}
    /\ procs' = [procs EXCEPT ![w] = [IdleSeeder EXCEPT !.pc = "read",
                                                        !.existing = DOMAIN seeds]]
    /\ UNCHANGED <<seeds, students, questions, answers, probe>>

\* the loop over range(MIN_SID, MAX_SID + 1): a Seed is added for every sid
\* not in existing; with nothing added there is no commit
seeds_add(w, draw) ==
    LET missing == Roster \ procs[w].existing
    IN  /\ procs[w].pc = "read"
        /\ IF missing = {}
           THEN procs' = [procs EXCEPT ![w].pc = "done", ![w].outcome = "unchanged"]
           ELSE procs' = [procs EXCEPT ![w].pc = "added",
                                       ![w].pending = [sid \in missing |-> draw[sid]]]
        /\ UNCHANGED <<seeds, students, questions, answers, probe>>

\* db.session.commit(); _startup_once swallows the IntegrityError
seeds_commit(w) ==
    /\ procs[w].pc = "added"
    /\ seeds' = commit_seeds(seeds, procs[w].pending)
    /\ procs' = [procs EXCEPT ![w].pc = "done",
                              ![w].outcome =
                                  IF DOMAIN procs[w].pending \cap DOMAIN seeds # {}
                                  THEN "IntegrityError:seed" ELSE "committed"]
    /\ UNCHANGED <<students, questions, answers, probe>>

\* The state after db.create_all(), before the first request
InitSeeds ==
    /\ seeds = EmptyTable
    /\ students = EmptyTable
    /\ questions = <<>>
    /\ answers = {}
    /\ procs = [w \in Workers |-> IdleSeeder]
    /\ probe = NoProbe

SeedsRead == \E w \in Workers : seeds_read(w)

SeedsAdd == \E w \in Workers, draw \in RaceSeedDraws : seeds_add(w, draw)

SeedsCommit == \E w \in Workers : seeds_commit(w)

NextSeeds ==
    \/ SeedsRead
    \/ SeedsAdd
    \/ SeedsCommit

SpecSeeds == InitSeeds /\ [][NextSeeds]_vars

----------------------------------------------------------------------------
(* Concurrent start_preset.  Each worker serves one publish request in its  *)
(* own database session; a step is one access to the database.  The        *)
(* UPDATE of start_preset clears the rows the session sees active, the      *)
(* change and the added Question wait in the session's transaction until   *)
(* the commit.  No constraint of the Question table bounds the number of   *)
(* active rows, and start_preset takes no lock: with the store of          *)
(* DATABASE_URL giving each session the committed rows, the steps of two   *)
(* requests interleave freely; a store that makes writers wait for each    *)
(* other (the default SQLite file) yields the runs in which one request's  *)
(* steps follow the other's, which are among these.                        *)

\* Questions the racing publishes may create
MaxRacePublishes == 3

IdlePublisher == [pc |-> "idle", preset |-> None, cleared |-> {}, outcome |-> "none"]

\* requests between their first step and their commit
InFlight == {w \in Workers : procs[w].pc \in {"update", "add", "commit"}}

\* preset = next((p for p in presets_list if p["id"] == preset_id), None)
publish_begin(w, preset_id) ==
    LET preset == find_preset(preset_id)
    IN  /\ procs[w].pc \in {"idle", "done"}
        /\ Len(questions) + Cardinality(InFlight) < MaxRacePublishes
        /\ IF preset = None
           THEN procs' = [procs EXCEPT ![w] =
                    [IdlePublisher EXCEPT !.pc = "done", !.outcome = "PresetNotFound"]]
           ELSE procs' = [procs EXCEPT ![w] =
                    [IdlePublisher EXCEPT !.pc = "update", !.preset = preset]]
        /\ UNCHANGED <<seeds, students, questions, answers, probe>>

\* Question.query.filter_by(is_active=True).update({"is_active": False}):
\* the rows active in the committed table are cleared in the transaction
publish_update(w) ==
    /\ procs[w].pc = "update"
    /\ procs' = [procs EXCEPT ![w].pc = "add",
                              ![w].cleared = {i \in QuestionIds(questions) :
                                                questions[i].is_active}]
    /\ UNCHANGED <<seeds, students, questions, answers, probe>>

\* q = Question(...); db.session.add(q): the row waits in the session
publish_add(w) ==
    /\ procs[w].pc = "add"
    /\ procs' = [procs EXCEPT ![w].pc = "commit"]
    /\ UNCHANGED <<seeds, students, questions, answers, probe>>

\* db.session.commit(): the cleared flags and the new active row are stored
publish_commit(w) ==
    LET id == Len(questions) + 1
        cleared == [i \in QuestionIds(questions) |->
                      IF i \in procs[w].cleared
                      THEN [questions[i] EXCEPT !.is_active = FALSE]
                      ELSE questions[i]]
    IN  /\ procs[w].pc = "commit"
        /\ questions' = Append(cleared, NewQuestion(id, procs[w].preset[1]))
        /\ procs' = [procs EXCEPT ![w].pc = "done", ![w].outcome = "Published"]
        /\ UNCHANGED <<seeds, students, answers, probe>>

InitPublish ==
    /\ \E draw \in SeedDraws : seeds = ensure_seeds(EmptyTable, draw)
    /\ students = EmptyTable
    /\ questions = <<>>
    /\ answers = {}
    /\ procs = [w \in Workers |-> IdlePublisher]
    /\ probe = NoProbe

PublishBegin == \E w \in Workers, preset_id \in PresetIdInputs \cup {"p8"} : publish_begin(w, preset_id)

PublishUpdate == \E w \in Workers : publish_update(w)

PublishAdd == \E w \in Workers : publish_add(w)

PublishCommit == \E w \in Workers : publish_commit(w)

NextPublish ==
    \/ PublishBegin
    \/ PublishUpdate
    \/ PublishAdd
    \/ PublishCommit

SpecPublish == InitPublish /\ [][NextPublish]_vars

----------------------------------------------------------------------------
(* The decoder on its own: decode_code applied to the cipher of every      *)
(* (sid, offset, option index, option count), valid or just outside.       *)

\* sid * 100 + offset + option_index: the cipher a student computes
encode(sid, r, option_index) == sid * 100 + r + option_index

\* Seed tables for a probe of sid: its row holds r, or is missing
ProbeSeeds(sid, r, seeded) ==
    [s \in (IF seeded THEN Roster \cup {sid} ELSE Roster \ {sid}) |->
        IF s = sid THEN r ELSE (5 * s) % (MAX_R + 1)]

DecodeInput(sid, r, option_index, n, seeded) ==
    [fn |-> "decode_code", sid |-> sid, r |-> r, option_index |-> option_index,
     n |-> n, seeded |-> seeded, out |-> None]

\* Every sid of the roster and the two next to it, every offset, every option
\* count and every option index from 0 to one past the count; the row of the
\* sid is missing from the Seed table in the inputs with seeded = FALSE.
InitDecode ==
    /\ \E sid \in (MIN_SID - 1)..(MAX_SID + 1), r \in 0..MAX_R, n \in 1..MAX_OPTIONS,
          seeded \in BOOLEAN :
          \E i \in 0..(n + 1) :
             /\ seeded \/ r = 0
             /\ probe = DecodeInput(sid, r, i, n, seeded)
             /\ seeds = ProbeSeeds(sid, r, seeded)
    /\ students = EmptyTable
    /\ questions = <<>>
    /\ answers = {}
    /\ procs = Idle

\* decode_code(code_int, question) for a question of probe.n options
DecodeProbe ==
    /\ probe.out = None
    /\ probe' = [probe EXCEPT !.out =
                    Some(decode_code(encode(probe.sid, probe.r, probe.option_index),
                                     probe.n, seeds))]
    /\ UNCHANGED <<seeds, students, questions, answers, procs>>

SpecDecode == InitDecode /\ [][DecodeProbe]_vars

\* The inputs the round trip is about: a sid of the roster with a stored
\* offset and an option index of the question
ValidProbe ==
    /\ probe.fn = "decode_code"
    /\ probe.sid \in 1..64
    /\ probe.seeded
    /\ probe.r \in 0..89
    /\ probe.n \in 1..10
    /\ probe.option_index \in 1..probe.n

\* C1: decode_code(sid * 100 + r + i, question) returns exactly (sid, i) and
\* raises no error, for every sid in 1..64 with stored offset r in 0..89 and
\* every option index i in 1..N of a question with N in 1..10 options.
C1_DecodeRoundTrip ==
    (ValidProbe /\ probe.out # None) =>
        /\ probe.out[1].err = ""
        /\ probe.out[1].sid = probe.sid
        /\ probe.out[1].option_index = probe.option_index

\* The largest cipher suffix decoded: offset 89 and option 10 of 10, sid 64
C1_Witness ==
    /\ ValidProbe
    /\ probe.out # None
    /\ probe.sid = 64 /\ probe.r = 89 /\ probe.option_index = 10
    /\ probe.out[1].err = ""

----------------------------------------------------------------------------
(* Vocabulary of the properties. *)

ActiveIds == {i \in 1..Len(questions) : questions[i].is_active}

\* code_field is the cipher of sid for one of the options of question qid:
\* the digits of sid * 100 + offset(sid) + i with i in 1..N
CipherOf(code_field, sid, qid) ==
    /\ isdigit(strip(code_field))
    /\ sid \in DOMAIN seeds
    /\ \E i \in 1..Len(questions[qid].options) :
          int(strip(code_field)) = sid * 100 + seeds[sid] + i

\* The option index that cipher stands for
OptionOf(code_field, sid) == int(strip(code_field)) - sid * 100 - seeds[sid]

\* The rows of question qid without their deltas
LedgerOf(anstab, qid) ==
    {<<a.sid, a.option_index, a.code>> : a \in {x \in anstab : x.question_id = qid}}

OnePerPair ==
    \A a, b \in answers : (a.sid = b.sid /\ a.question_id = b.question_id) => a = b

----------------------------------------------------------------------------
(* Properties of the sequential specification.  A property of a request    *)
(* is stated of its result in every reachable state, or of the step that   *)
(* commits that result.                                                     *)

\* C2: in every state reachable by publish, settle, submit, delete,
\* edit-options and scoring requests served one at a time, at most one
\* Question has active = true.
C2_AtMostOneActive == Cardinality(ActiveIds) <= 1

\* Two questions published, the first one deactivated and settled with a
\* scored Answer, the second one active
C2_Witness ==
    /\ Len(questions) = 2
    /\ ActiveIds = {2}
    /\ questions[1].settled_at # None
    /\ \E a \in answers : a.question_id = 1 /\ a.score_change = 1

\* The result of a submit of code_field for the stored Answer a's pair is the
\* duplicate rejection: status 409, and the Answer table as it was
DuplicateRefused(a, code_field) ==
    LET r == submit_result(a.question_id, code_field)
    IN  /\ r.resp.status = 409
        /\ r.resp.outcome = "DuplicateSubmission"
        /\ r.answers = answers
        /\ r.questions = questions

\* C3 as stated: a submit of a cipher of (sid, question) while an Answer of
\* that pair is stored (no delete since the first submit) is rejected as
\* DuplicateSubmission, whatever else happened in between; the stored
\* Answers are unchanged and no pair has two Answers.
C3_Original ==
    /\ OnePerPair
    /\ \A a \in answers, code_field \in CodeInputs :
          ( /\ a.question_id \in ActiveChoice
            /\ CipherOf(code_field, a.sid, a.question_id) )
          => DuplicateRefused(a, code_field)

\* C3 amended: submitting for the same (sid, question) twice without a
\* delete in between, the question not settled in between: the second
\* submit is rejected as DuplicateSubmission (409), no pair has two Answers,
\* and the first Answer's option index, cipher and delta are unchanged.
C3_DuplicateRejected ==
    /\ OnePerPair
    /\ \A a \in answers, code_field \in CodeInputs :
          ( /\ a.question_id \in ActiveChoice
            /\ questions[a.question_id].settled_at = None
            /\ CipherOf(code_field, a.sid, a.question_id) )
          => DuplicateRefused(a, code_field)

\* An Answer of sid 1 for option 1 (cipher 106), scored since, on the open
\* active question: the cipher of option 2 (107) is refused as a duplicate
C3_Witness ==
    \E a \in answers :
       /\ a.sid = 1 /\ a.option_index = 1 /\ a.score_change = 1
       /\ a.question_id \in ActiveChoice
       /\ questions[a.question_id].settled_at = None
       /\ CipherOf(<<"1", "0", "7">>, 1, a.question_id)
       /\ submit_result(a.question_id, <<"1", "0", "7">>).resp.outcome
             = "DuplicateSubmission"

\* Every submit of the model's code fields, made while the settled question
\* qid is the active one, is refused with QuestionAlreadySettled and leaves
\* the tables as they were
SettledRefuses(qid) ==
    \A code_field \in CodeInputs :
       LET r == submit_result(qid, code_field)
       IN  /\ r.resp.status = 409
           /\ r.resp.outcome = "QuestionAlreadySettled"
           /\ r.answers = answers
           /\ r.students = students
           /\ r.questions = questions

\* C5: once a question is settled, every submission made while it is the
\* active question is rejected with QuestionAlreadySettled; no later step,
\* of any request, gives the question a new Answer, and its settle
\* timestamp stays set.
C5_SettledIsClosed ==
    /\ [](\A qid \in ActiveChoice \ {0} :
            questions[qid].settled_at # None => SettledRefuses(qid))
    /\ [][\A qid \in QuestionIds(questions) :
            questions[qid].settled_at # None =>
               /\ qid \in QuestionIds(questions')
               /\ questions'[qid].settled_at # None
               /\ LedgerOf(answers', qid) \subseteq LedgerOf(answers, qid)]_vars

\* The active question is settled, has 10 options and holds an Answer of
\* sid 1; the cipher of sid 2 for option 10 is refused
C5_Witness ==
    \E qid \in ActiveChoice \ {0} :
       /\ questions[qid].settled_at # None
       /\ \E a \in answers : a.question_id = qid /\ a.sid = 1
       /\ Len(questions[qid].options) = 10
       /\ CipherOf(<<" ", "2", "2", "0", "\n">>, 2, qid)
       /\ submit_result(qid, <<" ", "2", "2", "0", "\n">>).resp.outcome
             = "QuestionAlreadySettled"

\* The delete requests of the model that resolve to the existing question
\* qid: the one naming it in the path and, when qid is the active question,
\* the one of the operator page
DeleteResults(qid, sid_field) ==
    {delete_submission_for_question_result(qid, sid_field)}
    \cup (IF qid \in ActiveChoice
          THEN {delete_submission_result(qid, sid_field)} ELSE {})

\* The delete of a pair with no Answer answers NotFound and changes nothing;
\* the delete of a pair with an Answer removes exactly that Answer.
DeleteContract ==
    \A qid \in QuestionIds(questions), sid_field \in SidInputs :
       isdigit(strip(sid_field)) =>
          \A r \in DeleteResults(qid, sid_field) :
             LET hit == {a \in answers : a.question_id = qid
                                            /\ a.sid = int(strip(sid_field))}
             IN  IF hit = {}
                 THEN /\ r.resp.outcome = "NotFound"
                      /\ r.answers = answers
                      /\ r.students = students
                      /\ r.questions = questions
                 ELSE /\ r.resp.outcome = "Deleted"
                      /\ Cardinality(hit) = 1
                      /\ r.answers = answers \ hit

\* On the tables a delete of an Answer commits, with the question of the
\* pair the active one (and, with must_be_open, not settled), the submit of
\* every cipher of the pair succeeds and stores one new Answer with delta 0.
ResubmitSucceeds(must_be_open) ==
    \A qid \in QuestionIds(questions), sid_field \in SidInputs :
       \A d \in DeleteResults(qid, sid_field) :
          ( /\ d.resp.outcome = "Deleted"
            /\ qid \in ActiveChoice
            /\ must_be_open => questions[qid].settled_at = None )
          => \A code_field \in CodeInputs :
                LET sid == int(strip(sid_field))
                    r == submit_on(d, qid, code_field)
                IN  CipherOf(code_field, sid, qid) =>
                      /\ r.resp.status = 200
                      /\ r.resp.outcome = "Ok"
                      /\ r.answers = d.answers \cup
                            {[sid |-> sid, question_id |-> qid,
                              option_index |-> OptionOf(code_field, sid),
                              code |-> int(strip(code_field)),
                              score_change |-> 0]}
                      /\ Cardinality(r.answers) = Cardinality(d.answers) + 1

\* C6 as stated: delete of a missing pair is NotFound and changes nothing,
\* delete of a stored pair removes exactly that Answer, and the next
\* submission of a valid cipher for the pair succeeds with delta 0.
C6_Original == DeleteContract /\ ResubmitSucceeds(FALSE)

\* C6 amended: the same, the resubmission succeeding when the question of
\* the pair is the active one and has not been settled.
C6_DeleteThenResubmit == DeleteContract /\ ResubmitSucceeds(TRUE)

\* The Answer of sid 1 was scored and deleted: sid 1 holds the point and no
\* Answer, on the open active question where cipher 107 is accepted again
C6_Witness ==
    \E qid \in ActiveChoice \ {0} :
       /\ questions[qid].settled_at = None
       /\ 1 \in DOMAIN students /\ students[1] = 1
       /\ \A a \in answers : a.sid # 1
       /\ submit_result(qid, <<"1", "0", "7">>).resp.outcome = "Ok"
       /\ delete_result("delete", qid, <<"1">>).resp.outcome = "NotFound"

\* A stored Answer can be deleted whether or not its question is settled,
\* by either delete request, and the result keeps every other row
DeleteAllowed ==
    \A a \in answers, sid_field \in SidInputs :
       (isdigit(strip(sid_field)) /\ int(strip(sid_field)) = a.sid) =>
          \A r \in DeleteResults(a.question_id, sid_field) :
             /\ r.resp.outcome = "Deleted"
             /\ a \notin r.answers
             /\ answers \ {a} \subseteq r.answers
             /\ r.students = students
             /\ r.questions = questions

\* A step that leaves the pair of the stored Answer a without an Answer
\* takes away that row and nothing else
DeleteFrame ==
    \A a \in answers :
       (\A b \in answers' : b.question_id # a.question_id \/ b.sid # a.sid) =>
          /\ Delete \/ DeleteFor
          /\ answers' = answers \ {a}
          /\ students' = students
          /\ questions' = questions
          /\ seeds' = seeds

\* C7: deleting an Answer is allowed whether or not the question is settled
\* and is ledger-only: every Student's score, every other Answer with its
\* delta, every Question and every Seed is unchanged, so score granted
\* through the deleted Answer is not reversed.
C7_DeleteLedgerOnly == []DeleteAllowed /\ [][DeleteFrame]_vars

\* On a settled question the scored Answer of sid 1 was deleted: sid 1 keeps
\* the point, and the Answer of sid 2 is still stored
C7_Witness ==
    \E qid \in QuestionIds(questions) :
       /\ questions[qid].settled_at # None
       /\ 1 \in DOMAIN students /\ students[1] = 1
       /\ \A a \in answers : a.sid # 1
       /\ \E a \in answers : a.sid = 2 /\ a.question_id = qid

\* C8: publishing while another question is active leaves exactly one active
\* question, the newly created one, with settle timestamp null; the
\* previously active question is inactive and its settle timestamp, options
\* and Answers are unchanged by the publish.
C8_PublishReplacesActive ==
    [][(Len(questions') # Len(questions) /\ Publish /\ ActiveIds # {}) =>
          LET new == Len(questions) + 1
          IN  /\ Len(questions') = new
              /\ {i \in QuestionIds(questions') : questions'[i].is_active} = {new}
              /\ questions'[new].settled_at = None
              /\ \A old \in QuestionIds(questions) :
                    /\ questions'[old].is_active = FALSE
                    /\ questions'[old].settled_at = questions[old].settled_at
                    /\ questions'[old].options = questions[old].options
                    /\ questions'[old].preset_id = questions[old].preset_id
              /\ answers' = answers
              /\ students' = students]_vars

\* The second question was published over the first one, which was open,
\* had 10 options after an edit and an Answer for the tenth
C8_Witness ==
    /\ Len(questions) = 2
    /\ ActiveIds = {2}
    /\ questions[2].settled_at = None
    /\ questions[1].settled_at = None
    /\ Len(questions[1].options) = 10
    /\ \E a \in answers : a.question_id = 1 /\ a.option_index = 10
    /\ \A a \in answers : a.question_id = 1

\* The list an edit request supplies: its non-empty option texts and its
\* non-blank appended lines
supplied_list(f) ==
    stripped_nonblank(f.opts) \o stripped_nonblank(splitlines(f.append_raw))

\* C9 as stated: an edit that supplies a list shorter than the current
\* length, or shorter than the largest option index an Answer of the
\* question uses, is rejected and leaves the option list unchanged.
C9_Original ==
    \A qid \in QuestionIds(questions), f \in EditInputs :
       LET r == edit_result(qid, f.opts, f.append_raw)
           n == Len(supplied_list(f))
       IN  (n < Len(questions[qid].options) \/ n < max_used(answers, qid)) =>
              /\ r.resp.outcome = "OptionShrinkRejected"
              /\ r.questions[qid].options = questions[qid].options

\* C9 amended: an edit that supplies fewer texts than the current length is
\* accepted, not rejected (the positions it leaves out keep their text);
\* across any edit_options request the option count never decreases and
\* never falls below the largest option index the question's Answers use.
C9_EditNeverShrinks ==
    /\ \A a \in answers :
          a.option_index \in 1..Len(questions[a.question_id].options)
    /\ \A qid \in QuestionIds(questions), f \in EditInputs :
          LET r == edit_result(qid, f.opts, f.append_raw)
          IN  /\ r.resp.outcome = "Edited"
              /\ Len(r.questions[qid].options) >= Len(questions[qid].options)
              /\ Len(r.questions[qid].options) >= max_used(answers, qid)
              /\ max_used(r.answers, qid) = max_used(answers, qid)

\* A question edited by the request that supplies one text and two lines:
\* option 1 reads "x", the list grew from 9 to 10, an Answer uses option 10,
\* and the request that supplies that one text alone is accepted again
C9_Witness ==
    \E qid \in QuestionIds(questions) :
       /\ questions[qid].options[1] = <<"x">>
       /\ Len(questions[qid].options) = 10
       /\ max_used(answers, qid) = 10
       /\ edit_result(qid, << <<" ", "x", " ">> >>, <<>>).resp.outcome = "Edited"

\* The number of lines of raw that hold a character other than white space:
\* the positions that start the text of their line
nonblank_lines(raw) ==
    Cardinality({j \in 1..Len(raw) :
        /\ raw[j] \notin Whitespace
        /\ \A m \in 1..(j - 1) :
              raw[m] \notin Whitespace => \E t \in (m + 1)..(j - 1) : raw[t] = "\n"})

\* C10: an edit of a question with old_n options and k non-blank appended
\* lines gives a list of min(10, old_n + k) options; every position
\* 1..old_n keeps its place, its text replaced exactly when a non-empty
\* replacement is supplied; the option index of every Answer is unchanged.
C10_EditAppendsWithinCap ==
    \A qid \in QuestionIds(questions), f \in EditInputs :
       LET r == edit_result(qid, f.opts, f.append_raw)
           old == questions[qid].options
           new == r.questions[qid].options
           k == nonblank_lines(f.append_raw)
       IN  /\ Len(new) = Min(10, Len(old) + k)
           /\ Len(new) <= 10
           /\ \A i \in 1..Len(old) :
                 LET t == strip(form_opt(f.opts, i))
                 IN  IF t = <<>> THEN new[i] = old[i] ELSE new[i] = t
           /\ \A i \in (Len(old) + 1)..Len(new) : new[i] # <<>>
           /\ r.answers = answers
           /\ \A other \in QuestionIds(questions) \ {qid} :
                 r.questions[other] = questions[other]

\* A list of 10 options made from 9 by an edit that appended "y" in tenth
\* place; a further appended line finds no room and is dropped
C10_Witness ==
    \E qid \in QuestionIds(questions) :
       /\ Len(questions[qid].options) = 10
       /\ questions[qid].options[10] = <<"y">>
       /\ questions[qid].options[1] = <<"a">>
       /\ answers = {}
       /\ nonblank_lines(<<"\n", " ", "y", " ">>) = 1
       /\ Len(edit_result(qid, <<>>, <<"\n", " ", "y", " ">>).questions[qid].options) = 10

----------------------------------------------------------------------------
(* Properties of the scoring actions. *)

\* The deltas the scoring properties are stated for
Deltas == {-2, 0, 1, 3}

\* The sids whose Answer on question qid names option i
Chose(anstab, qid, i) ==
    {a.sid : a \in {x \in anstab : x.question_id = qid /\ x.option_index = i}}

\* after holds the scores of before, the sids of hit raised by d
ScoresRaised(before, after, hit, d) ==
    /\ DOMAIN after = DOMAIN before
    /\ \A s \in DOMAIN before :
          after[s] = before[s] + (IF s \in hit THEN d ELSE 0)

\* after holds the rows of before, the deltas of the rows of question qid
\* that belong to the sids of hit raised by d
DeltasRaised(before, after, qid, hit, d) ==
    after = {[a EXCEPT !.score_change =
                 @ + (IF a.question_id = qid /\ a.sid \in hit THEN d ELSE 0)] :
             a \in before}

\* C11: action A with a valid option index i and delta d on question q adds
\* d to the score of every student whose Answer on q names option i and to
\* that Answer's delta; every other score and every other delta is
\* unchanged; the same action invoked again applies d again.
C11_OptionScoring ==
    \A qid \in QuestionIds(questions), d \in Deltas :
       \A i \in 1..Len(questions[qid].options) :
          LET hit == Chose(answers, qid, i)
              r1 == score_A_on(Same, qid, i, d)
              r2 == score_A_on(r1, qid, i, d)
          IN  /\ r1.resp.outcome = "Scored"
              /\ ScoresRaised(students, r1.students, hit, d)
              /\ DeltasRaised(answers, r1.answers, qid, hit, d)
              /\ r1.questions = questions
              /\ r2.resp.outcome = "Scored"
              /\ ScoresRaised(students, r2.students, hit, 2 * d)
              /\ DeltasRaised(answers, r2.answers, qid, hit, 2 * d)

\* Option 1 of the first question was scored: the Answer of sid 1 for it
\* carries the point, the Answer of sid 2 for option 10 and the Answer of
\* sid 1 on the second question carry none
C11_Witness ==
    /\ Len(questions) = 2
    /\ \E a \in answers :
          a.question_id = 1 /\ a.sid = 1 /\ a.option_index = 1 /\ a.score_change = 1
    /\ \E a \in answers :
          a.question_id = 1 /\ a.sid = 2 /\ a.option_index = 10 /\ a.score_change = 0
    /\ \E a \in answers : a.question_id = 2 /\ a.sid = 1 /\ a.score_change = 0
    /\ students[1] = 1 /\ students[2] = 0

\* The sids the per-student scoring properties are stated for
ScoredSids == {MIN_SID, 2, 3, MAX_SID}

\* The score a Student row of studtab starts from when it is created now
InitialScore(studtab) ==
    IF DOMAIN studtab = {} THEN 0
    ELSE CHOOSE m \in {studtab[s] : s \in DOMAIN studtab} :
            \A s \in DOMAIN studtab : m <= studtab[s]

\* C12: action B with sid in 1..64 and delta d on question q adds d to that
\* student's score whether or not they have an Answer on q, the Student row
\* being created first if absent; their Answer on q, if any, has its delta
\* raised by d; no other Student and no other Answer is modified.
C12_StudentScoring ==
    \A qid \in QuestionIds(questions), sid \in ScoredSids, d \in Deltas :
       LET r == score_B_on(Same, qid, sid, d)
           start == IF sid \in DOMAIN students THEN students[sid]
                    ELSE InitialScore(students)
       IN  /\ r.resp.outcome = "Scored"
           /\ DOMAIN r.students = DOMAIN students \cup {sid}
           /\ r.students[sid] = start + d
           /\ \A s \in DOMAIN students \ {sid} : r.students[s] = students[s]
           /\ DeltasRaised(answers, r.answers, qid, {sid}, d)
           /\ r.questions = questions

\* Student 2 holds a point and has no Answer anywhere, while sid 1 has an
\* Answer with delta 0: the point is attributed to no Answer
C12_Witness ==
    /\ 2 \in DOMAIN students /\ students[2] = 1
    /\ \A a \in answers : a.sid # 2 /\ a.score_change = 0
    /\ \E a \in answers : a.sid = 1
    /\ students[1] = 0
    /\ \A qid \in QuestionIds(questions) : Len(questions[qid].options) = 9

\* The fields of the probabilistic scoring properties: probabilities below,
\* at, between and above the ends of 0..100 %, and pairs (delta1, delta2)
ProbPercents == {-50, 0, 37, 100, 150}

DeltaPairs == { <<1, 0>>, <<-2, 3>>, <<3, 3>> }

\* C13: action C with p = 0 % gives delta2 to every matching student and
\* Answer, with p = 100 % or more delta1, whatever the random draws in
\* [0, 1); for any p, each matching Answer's delta and its student's score
\* change by the same realized value, delta1 or delta2; nothing else changes.
C13_ProbabilisticScoring ==
    \A qid \in QuestionIds(questions), p \in ProbPercents, dd \in DeltaPairs :
       \A i \in 1..Len(questions[qid].options) :
          LET hit == Chose(answers, qid, i)
          IN  \A draw \in [hit -> RandomDraws] :
                 LET r == score_C_result(qid, i, p, dd[1], dd[2], draw)
                 IN  /\ r.resp.outcome = "Scored"
                     /\ DOMAIN r.students = DOMAIN students
                     /\ r.questions = questions
                     /\ \A s \in DOMAIN students \ hit : r.students[s] = students[s]
                     /\ \A a \in answers :
                           (a.question_id # qid \/ a.sid \notin hit) => a \in r.answers
                     /\ Cardinality(r.answers) = Cardinality(answers)
                     /\ \A a \in answers :
                           (a.question_id = qid /\ a.sid \in hit) =>
                              \E v \in {dd[1], dd[2]} :
                                 /\ r.students[a.sid] = students[a.sid] + v
                                 /\ [a EXCEPT !.score_change = @ + v] \in r.answers
                                 /\ p <= 0 => v = dd[2]
                                 /\ p >= 100 => v = dd[1]

\* The Answer of sid 2 for option 10 carries a point and sid 2's score is 1,
\* next to an unscored Answer of sid 1; on it p = 0 % gives delta2 and
\* p = 100 % gives delta1 for the smallest and the largest draw
C13_Witness ==
    \E a \in answers :
       /\ a.sid = 2 /\ a.option_index = 10 /\ a.score_change = 1
       /\ students[2] = 1
       /\ \E b \in answers : b.question_id = a.question_id /\ b.sid = 1
                               /\ b.score_change = 0
       /\ score_C_result(a.question_id, 10, 0, 5, -1, [s \in {2} |-> 0]).students[2] = 0
       /\ score_C_result(a.question_id, 10, 100, -1, 5, [s \in {2} |-> 99]).students[2] = 0

\* The "question_id" fields that resolve to no question, and the option
\* indexes and sids outside their ranges
BadQidInputs == { <<>>, <<"x">>, <<"0">>, <<"7">> }

BadOptions(n) == {-1, 0, n + 1, 11}

BadSids == {-1, 0, MAX_SID + 1}

\* r is a rejection that leaves the four tables as they are
RejectedUnchanged(r, outcomes) ==
    /\ r.resp.outcome \in outcomes
    /\ r.seeds = seeds
    /\ r.students = students
    /\ r.questions = questions
    /\ r.answers = answers

NoDraw == [s \in {} |-> 0]

\* C14: a scoring action with an invalid target (a question id that names no
\* question, an option index outside 1..N for A and C, a sid outside 1..64
\* for B, an unknown action kind) is rejected with no side effect: no
\* Student row is created or changed and no Answer delta changes.
C14_InvalidTargetRejected ==
    /\ \A qid_field \in BadQidInputs, d \in Deltas :
          LET none == {"MissingQuestionId", "QuestionNotFound"}
          IN  /\ RejectedUnchanged(score_A_request(qid_field, 1, d), none)
              /\ RejectedUnchanged(score_B_request(qid_field, 2, d), none)
              /\ RejectedUnchanged(score_C_request(qid_field, 1, 50, d, 0, NoDraw), none)
              /\ RejectedUnchanged(score_unknown_request(qid_field), none)
    /\ \A qid_field \in QidInputs, d \in Deltas :
          question_get(questions, score_qid(qid_field)) # None =>
             LET n == Len(questions[score_qid(qid_field)].options)
             IN  /\ \A i \in BadOptions(n) :
                       /\ RejectedUnchanged(score_A_request(qid_field, i, d),
                                            {"InvalidOption"})
                       /\ \A p \in ProbPercents :
                             RejectedUnchanged(
                                score_C_request(qid_field, i, p, d, 1, NoDraw),
                                {"InvalidOption"})
                 /\ \A sid \in BadSids :
                       RejectedUnchanged(score_B_request(qid_field, sid, d),
                                         {"InvalidSid"})
                 /\ RejectedUnchanged(score_unknown_request(qid_field),
                                      {"UnknownAction"})

\* Two questions, a scored Answer and a Student row: scoring question 7,
\* option 11 of question 2 and sid 65 are each refused
C14_Witness ==
    /\ Len(questions) = 2
    /\ \E a \in answers : a.score_change = 1
    /\ DOMAIN students # {}
    /\ score_A_request(<<"7">>, 1, 1).resp.outcome = "QuestionNotFound"
    /\ score_A_request(<<" ", "2">>, 11, 1).resp.outcome = "InvalidOption"
    /\ score_B_request(<<" ", "2">>, 65, 1).resp.outcome = "InvalidSid"

\* The step is a submission whose cipher decodes to sid, accepted, and the
\* new row of sid starts from start
CreatedBySubmit(sid, start) ==
    \E code_field \in CodeInputs, qid \in ActiveChoice :
       LET r == submit_result(qid, code_field)
       IN  /\ r.resp.outcome = "Ok"
           /\ r.resp.sid = sid
           /\ students' = r.students
           /\ answers' = r.answers
           /\ students'[sid] = start

\* The step is a per-student scoring of sid, and the new row of sid holds
\* start and the delta of the action
CreatedByScoring(sid, start) ==
    \E qid_field \in QidInputs, d \in ChangeInputs :
       /\ score_actions_B(qid_field, sid, d)
       /\ students'[sid] = start + d

C19_AnswersWellFormed ==
    \A a \in answers :
       /\ a.sid \in MIN_SID..MAX_SID
       /\ a.sid \in DOMAIN students
       /\ a.question_id \in QuestionIds(questions)
       /\ a.option_index >= 1
       /\ a.option_index <= Len(questions[a.question_id].options)

\* Answers of sid 1 and of sid 2 (option 10, the last one) on a question
\* whose options were edited and appended to, one of them scored, and an
\* Answer kept on an earlier question that is no longer active
C19_Witness ==
    /\ Len(questions) = 2
    /\ Len(questions[2].options) = 10
    /\ \E a \in answers : a.question_id = 1
    /\ \E a \in answers :
          a.question_id = 2 /\ a.sid = 2 /\ a.option_index = 10 /\ a.score_change = 1
    /\ \E a \in answers : a.question_id = 2 /\ a.sid = 1

\* The (sid, question) pairs that hold an Answer
AnsweredPairs(anstab) == {<<a.sid, a.question_id>> : a \in anstab}

\* C20: publish is the only operation that changes an active flag: settle,
\* submit, delete, edit-options and scoring leave every flag as it was
\* (settle leaves the settled question active), and a question whose flag
\* has become false never becomes active again and never gets a new Answer.
C20_OnlyPublishDeactivates ==
    [][ /\ \A i \in QuestionIds(questions) :
             /\ i \in QuestionIds(questions')
             /\ questions'[i].is_active # questions[i].is_active =>
                   /\ Len(questions') = Len(questions) + 1
                   /\ Publish
                   /\ ~(Settle \/ Submit \/ Delete \/ DeleteFor \/ EditOptions
                          \/ ScoreA \/ ScoreB \/ ScoreC \/ ScoreUnknown)
             /\ questions'[i].settled_at # questions[i].settled_at =>
                   questions[i].is_active /\ questions'[i].is_active
             /\ ~questions[i].is_active =>
                   /\ ~questions'[i].is_active
                   /\ \A pair \in AnsweredPairs(answers') \ AnsweredPairs(answers) :
                         pair[2] # i ]_vars

\* The first question was deactivated by the second publish and still holds
\* its Answer; the second one was answered and then settled, and is active
C20_Witness ==
    /\ Len(questions) = 2
    /\ ~questions[1].is_active
    /\ questions[1].settled_at = None
    /\ questions[2].is_active
    /\ questions[2].settled_at # None
    /\ \E a \in answers : a.question_id = 1
    /\ \E a \in answers : a.question_id = 2

----------------------------------------------------------------------------
(* Properties of the concurrent specification. *)

\* The requests that came to their existence check end in one of these
PastDecode == {"Ok", "DuplicateSubmission", "IntegrityError:answer"}

\* C4: of two submit_code requests for the same (sid, active question) whose
\* existence check, insert and commit interleave, one stores the Answer of
\* the pair and the other ends with the DuplicateSubmission rejection: no
\* request ends with an unhandled failure, and no pair holds two Answers.
C4_RaceYieldsConflict ==
    /\ OnePerPair
    /\ \A w1, w2 \in Workers :
          ( /\ w1 # w2
            /\ procs[w1].pc = "done" /\ procs[w2].pc = "done"
            /\ procs[w1].sid = procs[w2].sid /\ procs[w1].qid = procs[w2].qid
            /\ procs[w1].resp.outcome = "Ok"
            /\ procs[w2].resp.outcome \in PastDecode )
          => ( /\ procs[w2].resp.outcome = "DuplicateSubmission"
               /\ procs[w2].resp.status = 409 )

\* C17: a submission that is rejected, whatever the reason, leaves the Seed,
\* Student, Question and Answer tables as they were: no request that ends
\* with a rejection has committed a Student row.
C17_RejectedSubmitNoSideEffect ==
    \A w \in Workers :
       (procs[w].pc = "done" /\ procs[w].resp.outcome # "Ok") => ~procs[w].created

\* C18: with the steps of two publish requests interleaved (deactivate the
\* active questions, insert the new active question, commit), no committed
\* state holds two questions with active = true, and once the requests are
\* through exactly one question is active.
C18_PublishRaceOneActive ==
    /\ Cardinality(ActiveIds) <= 1
    /\ (InFlight = {} /\ Len(questions) > 0) => Cardinality(ActiveIds) = 1

\* C16: after any number of ensure_seeds runs, one after another or
\* interleaved (read the existing sids, add the missing, commit), every
\* stored offset belongs to an id of 1..64 and lies in 0..89, an id gets its
\* offset from one commit only, and an offset once committed is never
\* changed or deleted.
C16_SeedsAssignedOnce ==
    /\ [](\A sid \in DOMAIN seeds : sid \in Roster /\ seeds[sid] \in 0..MAX_R)
    /\ [][ /\ \A sid \in DOMAIN seeds :
                sid \in DOMAIN seeds' /\ seeds'[sid] = seeds[sid]
           /\ \A w \in Workers :
                (procs[w].pc = "added" /\ procs'[w].outcome = "committed") =>
                    /\ DOMAIN procs[w].pending \cap DOMAIN seeds = {}
                    /\ \A sid \in DOMAIN procs[w].pending :
                          seeds'[sid] = procs[w].pending[sid] ]_vars

\* Two sessions read the empty table and drew different offsets; one has
\* committed its rows and the commit of the other was refused
C16_Witness ==
    /\ DOMAIN seeds = Roster
    /\ procs[1].outcome = "committed"
    /\ procs[2].outcome = "IntegrityError:seed"
    /\ procs[2].existing = {}
    /\ procs[2].pending[MIN_SID] # seeds[MIN_SID]
    /\ procs[1].pending[MIN_SID] = seeds[MIN_SID]

====
